---- MODULE Spec2Model ----
(***************************************************************************)
(* Jira issue cloner (src/index.js, the CommonJS revision at lines         *)
(* 204-470; the ES-module revision at lines 1-203 has the same control     *)
(* flow).  run() fetches the source issue once and then, per target,       *)
(* creates a clone, copies the attachments, links the clone to the source  *)
(* and sleeps.  sanitizeADF cleans the rich-text description.              *)
(*                                                                         *)
(* JavaScript values are modelled as follows:                              *)
(*   - an object is a record; an optional property is a field that is or   *)
(*     is not in the record's DOMAIN;                                      *)
(*   - null / undefined where an object is expected is JsNull;             *)
(*   - an array is a sequence;                                             *)
(*   - a string that the code inspects (a file name) is a sequence of      *)
(*     one-character strings.                                              *)
(***************************************************************************)
EXTENDS Integers, Sequences, FiniteSets, TLC

VARIABLES
    \* ---- the world outside the process --------------------------------
    TARGETS,      \* the configured target list (targets.json)
    jira,         \* the fields of the source issue as the server holds them
    created,      \* number of issues the server has created so far
    \* ---- run() ---------------------------------------------------------
    pc,           \* where run() stands
    src,          \* the fetched source issue (src.fields), JsNull before
    baseFields,   \* the fields shared by all clones, JsNull before
    ti,           \* index of the target the for-of loop is at
    newIssueKey,  \* newIssue.key of the current target, JsNull if none
    \* ---- cloneAttachments() -------------------------------------------
    ai,           \* index of the attachment the for-of loop is at
    buffer,       \* the bytes of the attachment just downloaded
    \* ---- what the process did, in order -------------------------------
    attempted,    \* the targets whose creation call was issued, in order
    calls,        \* external calls since the loop took the current target
                  \* (before the loop: since the start): one entry when a
                  \* call is issued, one when it settles
    console,      \* the lines printed over the same stretch
    \* ---- sanitizeADF called on its own --------------------------------
    sanArg,       \* the argument of the latest sanitizeADF call, as passed
    sanArgAfter,  \* the same object after the call returned
    sanOut,       \* the value the latest call returned
    sanCalls      \* number of calls made so far

sanVars ==
    <<sanArg, sanArgAfter, sanOut, sanCalls>>

runVars ==
    <<TARGETS, jira, created, pc, src, baseFields, ti, newIssueKey, ai, buffer,
      attempted, calls, console>>

vars ==
    <<TARGETS, jira, created, pc, src, baseFields, ti, newIssueKey, ai, buffer,
      attempted, calls, console, sanArg, sanArgAfter, sanOut, sanCalls>>

\* ------------------------------------------------------------------------
\* JavaScript values
\* ------------------------------------------------------------------------

\* null / undefined in a place where the code expects an object
JsNull ==
    [jsnull |-> TRUE]

\* obj.prop is present (not undefined)
Has(obj, prop) ==
    prop \in DOMAIN obj

\* Array.prototype.filter(Boolean) on an array of objects and nulls
RECURSIVE FilterBoolean(_)
FilterBoolean(arr) ==
    IF arr = <<>> THEN <<>>
    ELSE IF Head(arr) = JsNull THEN FilterBoolean(Tail(arr))
    ELSE <<Head(arr)>> \o FilterBoolean(Tail(arr))

\* ------------------------------------------------------------------------
\* sanitizeADF
\* ------------------------------------------------------------------------

\* the deny-set of sanitizeADF
unsupported_sanitizeADF ==
    {"mediaSingle", "media", "mediaInline", "inlineCard", "blockCard", "mention"}

RECURSIVE cleanContent(_)

\* cleanNode with the emptiness of a mediaGroup tested before its children
\* are cleaned (the test the source keeps commented out at line 369)
cleanNodeGroupTestedFirst(node) ==
    IF node = JsNull THEN JsNull
    ELSE IF node.type \in unsupported_sanitizeADF THEN JsNull
    ELSE IF node.type = "mediaGroup"
            /\ (~Has(node, "content") \/ Len(node.content) = 0)
         THEN JsNull
    ELSE IF Has(node, "content")
         THEN [node EXCEPT !.content = cleanContent(node.content)]
         ELSE node

\* cleanNode without the recursive call: only the top level is filtered
cleanNodeShallow(node) ==
    IF node = JsNull THEN JsNull
    ELSE IF node.type \in unsupported_sanitizeADF THEN JsNull
    ELSE IF node.type = "mediaGroup"
            /\ (~Has(node, "content") \/ Len(node.content) = 0)
         THEN JsNull
    ELSE node

\* the callback given to content.map: the value it returns for one node.
\* The node object it returns is the input node object, whose content
\* property has been overwritten with the cleaned child list.
cleanNode(node) ==
    IF node = JsNull THEN JsNull
    ELSE IF node.type \in unsupported_sanitizeADF THEN JsNull
    ELSE LET cleaned == IF Has(node, "content")
                        THEN [node EXCEPT !.content = cleanContent(node.content)]
                        ELSE node
         IN  IF cleaned.type = "mediaGroup"
                /\ (~Has(cleaned, "content") \/ Len(cleaned.content) = 0)
             THEN JsNull
             ELSE cleaned

cleanContent(content) ==
    FilterBoolean([i \in 1..Len(content) |-> cleanNode(content[i])])

\* what the node object passed to the map callback looks like afterwards:
\* the callback assigns node.content before it decides to keep the node
nodeAfterClean(node) ==
    IF node = JsNull THEN JsNull
    ELSE IF node.type \in unsupported_sanitizeADF THEN node
    ELSE IF Has(node, "content")
         THEN [node EXCEPT !.content = cleanContent(node.content)]
         ELSE node

\* sanitizeADF without the guard of its first line and without the default
\* for a missing content: such an argument is returned as it is
sanitizeADFUnguarded(adf) ==
    IF adf = JsNull \/ adf.type # "doc" THEN adf
    ELSE IF Has(adf, "content")
         THEN [adf EXCEPT !.content = cleanContent(adf.content)]
         ELSE adf

\* the value sanitizeADF(adf) returns
sanitizeADF(adf) ==
    IF adf = JsNull \/ adf.type # "doc"
    THEN [type |-> "doc", version |-> 1, content |-> <<>>]
    ELSE IF Has(adf, "content")
         THEN [adf EXCEPT !.content = cleanContent(adf.content)]
         ELSE [type |-> adf.type, version |-> adf.version, content |-> cleanContent(<<>>)]

\* the argument object after sanitizeADF(adf) returned: the root object and
\* its content array are left alone (map and the spread copy), the node
\* objects the array holds have been written to
adfAfterSanitize(adf) ==
    IF adf = JsNull \/ adf.type # "doc" THEN adf
    ELSE IF Has(adf, "content")
         THEN [adf EXCEPT !.content =
                  [i \in 1..Len(adf.content) |-> nodeAfterClean(adf.content[i])]]
         ELSE adf

\* ------------------------------------------------------------------------
\* Documents given to sanitizeADF
\* ------------------------------------------------------------------------

\* largest number of nodes below the root of a generated document
MaxNodes ==
    3

\* node kinds of the generated documents: a plain block, the media grouping
\* node, a media reference and a mention
NodeKinds ==
    {"paragraph", "mediaGroup", "media", "mention"}

RECURSIVE ForestOf(_), TreeOf(_)

\* the node subtrees made of exactly k entries of content arrays (a null
\* entry counts as one); a leaf has no content property or, for the kinds
\* whose treatment depends on it, an empty one
TreeOf(k) ==
    IF k = 1
    THEN {JsNull}
         \cup {[type |-> t] : t \in NodeKinds}
         \cup {[type |-> t, content |-> <<>>] : t \in {"paragraph", "mediaGroup"}}
    ELSE {[type |-> t, content |-> f] : t \in NodeKinds, f \in ForestOf(k - 1)}

\* the content arrays that hold n entries in all, at any depth
ForestOf(n) ==
    IF n = 0 THEN {<<>>}
    ELSE UNION {{<<t>> \o f : t \in TreeOf(k), f \in ForestOf(n - k)} : k \in 1..n}

\* every node carries an opaque payload that sanitizeADF never reads; here
\* it is the node's path in the input, which tells the nodes apart
RECURSIVE WithPayload(_, _)
WithPayload(node, path) ==
    IF node = JsNull THEN JsNull
    ELSE IF Has(node, "content")
         THEN [type |-> node.type, id |-> path,
               content |-> [i \in 1..Len(node.content) |->
                               WithPayload(node.content[i], Append(path, i))]]
         ELSE [type |-> node.type, id |-> path]

\* the arguments sanitizeADF is called with: nothing, a root of another
\* kind, a doc root without content, and every doc root over a forest of
\* at most n entries
SanitizeInputs(n) ==
    {JsNull,
     [type |-> "doc", version |-> 1],
     [type |-> "paragraph", id |-> <<>>,
      content |-> <<[type |-> "mention", id |-> <<1>>]>>]}
    \cup {[type |-> "doc", version |-> 1,
           content |-> [i \in 1..Len(f) |-> WithPayload(f[i], <<i>>)]] :
             f \in UNION {ForestOf(k) : k \in 0..n}}

\* ------------------------------------------------------------------------
\* Specification of sanitizeADF on its own
\* ------------------------------------------------------------------------

\* run() is not started: nothing is configured, fetched or called
RunNotStarted ==
    /\ TARGETS = <<>>
    /\ jira = JsNull
    /\ created = 0
    /\ pc = "idle"
    /\ src = JsNull
    /\ baseFields = JsNull
    /\ ti = 0
    /\ newIssueKey = JsNull
    /\ ai = 0
    /\ buffer = JsNull
    /\ attempted = <<>>
    /\ calls = <<>>
    /\ console = <<>>

InitSanitize ==
    /\ sanArg \in SanitizeInputs(MaxNodes)
    /\ sanArgAfter = sanArg
    /\ sanOut = JsNull
    /\ sanCalls = 0
    /\ RunNotStarted

\* sanitizeADF(doc)
SanitizeInput ==
    /\ sanCalls = 0
    /\ sanOut' = sanitizeADF(sanArg)
    /\ sanArgAfter' = adfAfterSanitize(sanArg)
    /\ sanCalls' = 1
    /\ UNCHANGED sanArg
    /\ UNCHANGED runVars

\* sanitizeADF(sanitizeADF(doc)): the previous result is the argument
SanitizeOutput ==
    /\ sanCalls = 1
    /\ sanArg' = sanOut
    /\ sanOut' = sanitizeADF(sanOut)
    /\ sanArgAfter' = adfAfterSanitize(sanOut)
    /\ sanCalls' = 2
    /\ UNCHANGED runVars

NextSanitize ==
    \/ SanitizeInput
    \/ SanitizeOutput

SpecSanitize ==
    InitSanitize /\ [][NextSanitize]_vars

\* ------------------------------------------------------------------------
\* Properties of sanitizeADF
\* ------------------------------------------------------------------------

\* the node objects found at any depth of a content array
RECURSIVE NodesIn(_)
NodesIn(content) ==
    UNION {IF content[i] = JsNull THEN {}
           ELSE {content[i]}
                \cup (IF Has(content[i], "content")
                      THEN NodesIn(content[i].content) ELSE {}) :
           i \in 1..Len(content)}

\* p is a prefix of q (q lies in the subtree of p, or is p)
IsPrefix(p, q) ==
    Len(p) <= Len(q) /\ SubSeq(q, 1, Len(p)) = p

\* the latest call got a doc root with a content array
SanitizedRoot ==
    sanCalls >= 1 /\ sanArg # JsNull /\ sanArg.type = "doc" /\ Has(sanArg, "content")

InputNodes ==
    NodesIn(sanArg.content)

OutputNodes ==
    NodesIn(sanOut.content)

OutputIds ==
    {n.id : n \in OutputNodes}

\* C10: for a doc root, the result of sanitizeADF holds no node whose kind is
\* in the deny-set, at any depth, and no node of the input that is such a
\* node or lies below one.
C10_NoDeniedNodeNorDescendant ==
    SanitizedRoot =>
        \A n \in OutputNodes :
            /\ n.type \notin unsupported_sanitizeADF
            /\ \A m \in InputNodes :
                   m.type \in unsupported_sanitizeADF => ~IsPrefix(m.id, n.id)

\* C10 witness: sanitizeADF has run on a document with a deny-set node at
\* depth two or more that has a child, and part of the document survived
C10_Witness ==
    /\ SanitizedRoot
    /\ sanCalls = 1
    /\ OutputNodes # {}
    /\ \E m \in InputNodes, d \in InputNodes :
           /\ m.type \in unsupported_sanitizeADF
           /\ Len(m.id) >= 2
           /\ IsPrefix(m.id, d.id) /\ d.id # m.id

\* kinds of node that carry embedded media
MediaKinds ==
    {"media", "mediaSingle", "mediaInline"}

\* the input has a node of a deny-set kind strictly above the node at path p
UnderDenied(p) ==
    \E m \in InputNodes :
        m.type \in unsupported_sanitizeADF /\ IsPrefix(m.id, p) /\ m.id # p

\* the node at path p has a child in the result
HasSurvivingChild(p) ==
    \E q \in OutputIds : Len(q) = Len(p) + 1 /\ IsPrefix(p, q)

DeniedNonMedia ==
    unsupported_sanitizeADF \ MediaKinds

UpperCase ==
    <<"A", "B", "C", "D", "E", "F", "G", "H", "I", "J", "K", "L", "M",
      "N", "O", "P", "Q", "R", "S", "T", "U", "V", "W", "X", "Y", "Z">>

LowerCase ==
    <<"a", "b", "c", "d", "e", "f", "g", "h", "i", "j", "k", "l", "m",
      "n", "o", "p", "q", "r", "s", "t", "u", "v", "w", "x", "y", "z">>

\* String.prototype.toLowerCase
toLowerCase(str) ==
    [i \in 1..Len(str) |->
        IF \E k \in 1..Len(UpperCase) : UpperCase[k] = str[i]
        THEN LowerCase[CHOOSE k \in 1..Len(UpperCase) : UpperCase[k] = str[i]]
        ELSE str[i]]

\* String.prototype.endsWith
endsWith(str, suffix) ==
    /\ Len(suffix) <= Len(str)
    /\ SubSeq(str, Len(str) - Len(suffix) + 1, Len(str)) = suffix

\* first index at or after i that holds no white space (Len(str) + 1 if none)
RECURSIVE SkipSpaces(_, _)
SkipSpaces(str, i) ==
    IF i <= Len(str) /\ str[i] = " " THEN SkipSpaces(str, i + 1) ELSE i

\* String.prototype.trim
RECURSIVE TrimEnd(_)
TrimEnd(str) ==
    IF str # <<>> /\ str[Len(str)] = " " THEN TrimEnd(SubSeq(str, 1, Len(str) - 1))
    ELSE str

trim(str) ==
    TrimEnd(SubSeq(str, SkipSpaces(str, 1), Len(str)))

\* first index at or after i that holds "]" (0 if none)
RECURSIVE FirstClose(_, _)
FirstClose(str, i) ==
    IF i > Len(str) THEN 0
    ELSE IF str[i] = "]" THEN i
    ELSE FirstClose(str, i + 1)

\* the index at which a match of /\s*\[[^\]]*\]/ that starts at i ends
\* (0 if the pattern does not match at i)
GroupEndAt(str, i) ==
    LET k == SkipSpaces(str, i)
    IN  IF k <= Len(str) /\ str[k] = "[" THEN FirstClose(str, k + 1) ELSE 0

\* str.replace(/\s*\[[^\]]*\]/g, '') from index i on
RECURSIVE ReplaceGroupsFrom(_, _)
ReplaceGroupsFrom(str, i) ==
    IF i > Len(str) THEN <<>>
    ELSE IF GroupEndAt(str, i) > 0 THEN ReplaceGroupsFrom(str, GroupEndAt(str, i) + 1)
    ELSE <<str[i]>> \o ReplaceGroupsFrom(str, i + 1)

\* str.replace(/^\s*\[[^\]]*\]\s*/, '')
ReplaceLeadingGroup(str) ==
    IF GroupEndAt(str, 1) > 0
    THEN SubSeq(str, SkipSpaces(str, GroupEndAt(str, 1) + 1), Len(str))
    ELSE str

\* ------------------------------------------------------------------------
\* transformSummaryForTarget
\* ------------------------------------------------------------------------

\* target.client is a string [str |-> s] or an array of strings [arr |-> a];
\* the value of clientVal, <<>> standing for a falsy one
clientVal(target) ==
    IF ~Has(target, "client") THEN <<>>
    ELSE IF Has(target.client, "arr")
         THEN (IF target.client.arr = <<>> THEN <<>> ELSE target.client.arr[1])
         ELSE target.client.str

\* transformSummaryForTarget with the /g pattern of the strip-all branch
\* used in the other branch as well
transformSummaryEveryGroupRemoved(target, originalSummary) ==
    IF target = JsNull \/ originalSummary = <<>> THEN originalSummary
    ELSE IF Has(target, "stripBrackets") /\ target.stripBrackets
         THEN trim(ReplaceGroupsFrom(originalSummary, 1))
    ELSE IF clientVal(target) # <<>>
         THEN trim(<<"[">> \o clientVal(target) \o <<"]", " ">>
                   \o ReplaceGroupsFrom(originalSummary, 1))
    ELSE ReplaceGroupsFrom(originalSummary, 1)

transformSummaryForTarget(target, originalSummary) ==
    IF target = JsNull \/ originalSummary = <<>> THEN originalSummary
    ELSE IF Has(target, "stripBrackets") /\ target.stripBrackets
         THEN trim(ReplaceGroupsFrom(originalSummary, 1))
    ELSE IF clientVal(target) # <<>>
         THEN trim(<<"[">> \o clientVal(target) \o <<"]", " ">>
                   \o ReplaceLeadingGroup(originalSummary))
    ELSE ReplaceLeadingGroup(originalSummary)

\* ------------------------------------------------------------------------
\* cloneAttachments: what is uploaded for one attachment
\* ------------------------------------------------------------------------

\* the extensions cloneAttachments zips before the upload
unsupported_cloneAttachments ==
    {<<".", "m", "s", "g">>, <<".", "e", "m", "l">>, <<".", "e", "x", "e">>,
     <<".", "d", "l", "l">>, <<".", "b", "a", "t">>, <<".", "c", "m", "d">>,
     <<".", "s", "h">>, <<".", "i", "n", "i">>, <<".", "s", "y", "s">>,
     <<".", "d", "b">>, <<".", "l", "o", "g">>}

\* isUnsupportedFile without the toLowerCase call
isUnsupportedFileCaseSensitive(filename) ==
    \E ext \in unsupported_cloneAttachments : endsWith(filename, ext)

\* unsupported.some(ext => att.filename.toLowerCase().endsWith(ext))
isUnsupportedFile(filename) ==
    \E ext \in unsupported_cloneAttachments : endsWith(toLowerCase(filename), ext)

\* uploadName, the file name given to form.append
uploadNameOf(filename) ==
    IF isUnsupportedFile(filename) THEN filename \o <<".", "z", "i", "p">>
    ELSE filename

\* uploadBuffer, the payload given to form.append: the downloaded bytes, or
\* the archive AdmZip builds with the one entry zip.addFile added
uploadBufferOf(filename, bytes) ==
    IF isUnsupportedFile(filename)
    THEN [zip |-> <<[entryName |-> filename, data |-> bytes]>>]
    ELSE [raw |-> bytes]

\* the file name ends in an image extension
hasImageExtension(filename) ==
    \E ext \in {<<".", "p", "n", "g">>, <<".", "j", "p", "g">>,
                <<".", "j", "p", "e", "g">>, <<".", "g", "i", "f">>,
                <<".", "b", "m", "p">>, <<".", "s", "v", "g">>,
                <<".", "w", "e", "b", "p">>} :
        endsWith(toLowerCase(filename), ext)

\* SelectSeq without a LAMBDA: the entries of arr that are no image
RECURSIVE WithoutImages(_)
WithoutImages(arr) ==
    IF arr = <<>> THEN <<>>
    ELSE IF hasImageExtension(Head(arr).filename) THEN WithoutImages(Tail(arr))
    ELSE <<Head(arr)>> \o WithoutImages(Tail(arr))

\* attachmentsOf with the image attachments left out
attachmentsOfSkippingImages(srcIssue) ==
    IF Has(srcIssue, "attachment") THEN WithoutImages(srcIssue.attachment) ELSE <<>>

\* const attachments = srcIssue.fields.attachment || []
attachmentsOf(srcIssue) ==
    IF Has(srcIssue, "attachment") THEN srcIssue.attachment ELSE <<>>

\* ------------------------------------------------------------------------
\* run(): configuration and values it builds
\* ------------------------------------------------------------------------

\* process.argv[2]
SOURCE_ISSUE_KEY ==
    "SRC-1"

\* the argument of sleep() in run(), in milliseconds
SleepMs ==
    1000

\* baseFields with the description as fetched, not sanitized
baseFieldsOfRawDescription(srcFields) ==
    (IF Has(srcFields, "assignee")
     THEN [assignee |-> [id |-> srcFields.assignee.accountId]]
     ELSE <<>>)
    @@ [summary     |-> srcFields.summary,
        description |-> srcFields.description,
        issuetype   |-> [id |-> srcFields.issuetype.id]]

\* baseFields, as JSON.stringify sends it (an undefined property is dropped)
baseFieldsOf(srcFields) ==
    (IF Has(srcFields, "assignee")
     THEN [assignee |-> [id |-> srcFields.assignee.accountId]]
     ELSE <<>>)
    @@ [summary     |-> srcFields.summary,
        description |-> sanitizeADF(srcFields.description),
        issuetype   |-> [id |-> srcFields.issuetype.id]]

\* target.affectsVersions.map((v) => ({ name: v }))
versionNames(target) ==
    [i \in 1..Len(target.affectsVersions) |-> [name |-> target.affectsVersions[i]]]

\* fieldsOf with the version names under "versions" only
fieldsOfVersionsOnly(base, target, srcFields) ==
    (IF Has(target, "components") /\ Len(target.components) > 0
     THEN [components |-> [i \in 1..Len(target.components) |->
                              [name |-> target.components[i]]]]
     ELSE <<>>)
    @@ (IF Has(target, "labels") /\ Len(target.labels) > 0
        THEN [labels |-> target.labels]
        ELSE <<>>)
    @@ [summary  |-> transformSummaryForTarget(target, srcFields.summary),
        project  |-> [key |-> target.project],
        versions |-> versionNames(target)]
    @@ base

\* the fields object of one target, as JSON.stringify sends it; it is
\* evaluated only for a target that has affectsVersions
fieldsOf(base, target, srcFields) ==
    (IF Has(target, "components") /\ Len(target.components) > 0
     THEN [components |-> [i \in 1..Len(target.components) |->
                              [name |-> target.components[i]]]]
     ELSE <<>>)
    @@ (IF Has(target, "labels") /\ Len(target.labels) > 0
        THEN [labels |-> target.labels]
        ELSE <<>>)
    @@ (IF base.issuetype.id # "10011"
        THEN [versions |-> versionNames(target)]
        ELSE <<>>)
    @@ [summary     |-> transformSummaryForTarget(target, srcFields.summary),
        project     |-> [key |-> target.project],
        fixVersions |-> versionNames(target)]
    @@ base

\* building fields throws a TypeError: target.affectsVersions is undefined
\* and .map is read from it
fieldsThrow(target) ==
    ~Has(target, "affectsVersions")

\* the key the server gives the n-th issue it creates in a project
issueKey(project, n) ==
    [project |-> project, num |-> n]

\* the bytes the server holds at an attachment's content URL
bytesAt(url) ==
    [bytesOf |-> url]

\* one entry of calls
Call(op, ph, t, a, arg) ==
    [op |-> op, ph |-> ph, t |-> t, a |-> a, arg |-> arg]

\* one entry of console
Line(level, msg, t, a) ==
    [level |-> level, msg |-> msg, t |-> t, a |-> a]

target ==
    TARGETS[ti]

attachments ==
    attachmentsOf(src)

att ==
    attachments[ai]

\* ------------------------------------------------------------------------
\* run(): the steps between two awaits
\* ------------------------------------------------------------------------

\* const src = await jiraGet(...): the request is sent
CallJiraGet ==
    /\ pc = "start"
    /\ calls' = Append(calls, Call("jiraGet", "call", 0, 0, SOURCE_ISSUE_KEY))
    /\ pc' = "await_jiraGet"
    /\ UNCHANGED <<TARGETS, jira, created, src, baseFields, ti, newIssueKey, ai,
                   buffer, console, attempted, sanVars>>

\* jiraGet resolves: sanitizedDescription and baseFields are computed;
\* sanitizeADF writes to the nodes of src.fields.description while it runs
JiraGetOk ==
    /\ pc = "await_jiraGet"
    /\ calls' = Append(calls, Call("jiraGet", "ok", 0, 0, SOURCE_ISSUE_KEY))
    /\ src' = [jira EXCEPT !.description = adfAfterSanitize(jira.description)]
    /\ baseFields' = baseFieldsOf(jira)
    /\ ti' = 1
    /\ pc' = "loop"
    /\ UNCHANGED <<TARGETS, jira, created, newIssueKey, ai, buffer, console, attempted, sanVars>>

\* jiraGet rejects: run() rejects, run().catch prints the error
JiraGetFails ==
    /\ pc = "await_jiraGet"
    /\ calls' = Append(calls, Call("jiraGet", "fail", 0, 0, SOURCE_ISSUE_KEY))
    /\ console' = Append(console, Line("error", "Error", 0, 0))
    /\ pc' = "rejected"
    /\ UNCHANGED <<TARGETS, jira, created, src, baseFields, ti, newIssueKey, ai,
                   buffer, attempted, sanVars>>

\* for (const target of TARGETS): the list is exhausted, run() resolves
LoopExit ==
    /\ pc = "loop"
    /\ ti > Len(TARGETS)
    /\ pc' = "done"
    /\ UNCHANGED <<TARGETS, jira, created, src, baseFields, ti, newIssueKey, ai,
                   buffer, calls, console, attempted, sanVars>>

\* the fields object of the next target cannot be built: the TypeError is
\* thrown outside the try block, run() rejects, run().catch prints it
BuildFieldsThrows ==
    /\ pc = "loop"
    /\ ti <= Len(TARGETS)
    /\ fieldsThrow(target)
    /\ console' = Append(console, Line("error", "Error", ti, 0))
    /\ pc' = "rejected"
    /\ UNCHANGED <<TARGETS, jira, created, src, baseFields, ti, newIssueKey, ai,
                   buffer, calls, attempted, sanVars>>

\* const newIssue = await jiraPost("/rest/api/3/issue", { fields })
CallCreate ==
    /\ pc = "loop"
    /\ ti <= Len(TARGETS)
    /\ ~fieldsThrow(target)
    /\ attempted' = Append(attempted, ti)
    /\ calls' = <<Call("create", "call", ti, 0, fieldsOf(baseFields, target, src))>>
    /\ console' = <<>>
    /\ pc' = "await_create"
    /\ UNCHANGED <<TARGETS, jira, created, src, baseFields, ti, newIssueKey, ai,
                   buffer, sanVars>>

\* CreateOk with the key kept in a variable that is assigned only while it
\* is empty: a key left from an earlier target stays
CreateOkKeepsEarlierKey ==
    /\ pc = "await_create"
    /\ created' = created + 1
    /\ newIssueKey' = IF newIssueKey = JsNull
                      THEN issueKey(target.project, created + 1)
                      ELSE newIssueKey
    /\ calls' = Append(calls, Call("create", "ok", ti, 0,
                                    issueKey(target.project, created + 1)))
    /\ console' = Append(console, Line("log", "Created clone", ti, 0))
    /\ ai' = 1
    /\ pc' = "attachments"
    /\ UNCHANGED <<TARGETS, jira, src, baseFields, ti, buffer, attempted, sanVars>>

\* the issue is created: cloneAttachments(src, newIssue.key) is entered
CreateOk ==
    /\ pc = "await_create"
    /\ created' = created + 1
    /\ newIssueKey' = issueKey(target.project, created + 1)
    /\ calls' = Append(calls, Call("create", "ok", ti, 0, newIssueKey'))
    /\ console' = Append(console, Line("log", "Created clone", ti, 0))
    /\ ai' = 1
    /\ pc' = "attachments"
    /\ UNCHANGED <<TARGETS, jira, src, baseFields, ti, buffer, attempted, sanVars>>

\* CreateFails with the try block closed right after jiraPost: the failure
\* is printed and the rest of the iteration runs
CreateFailsFallsThrough ==
    /\ pc = "await_create"
    /\ calls' = Append(calls, Call("create", "fail", ti, 0, JsNull))
    /\ console' = Append(console, Line("error", "Failed to create clone", ti, 0))
    /\ newIssueKey' = JsNull
    /\ ai' = 1
    /\ pc' = "attachments"
    /\ UNCHANGED <<TARGETS, jira, created, src, baseFields, ti, buffer, attempted,
                   sanVars>>

\* jiraPost throws: the outer catch prints, the loop goes to the next target
CreateFails ==
    /\ pc = "await_create"
    /\ calls' = Append(calls, Call("create", "fail", ti, 0, JsNull))
    /\ console' = Append(console, Line("error", "Failed to create clone", ti, 0))
    /\ newIssueKey' = JsNull
    /\ ti' = ti + 1
    /\ pc' = "loop"
    /\ UNCHANGED <<TARGETS, jira, created, src, baseFields, ai, buffer, attempted, sanVars>>

\* for (const att of attachments): the list is exhausted, cloneAttachments
\* returns
AttachmentsDone ==
    /\ pc = "attachments"
    /\ ai > Len(attachments)
    /\ pc' = "link"
    /\ UNCHANGED <<TARGETS, jira, created, src, baseFields, ti, newIssueKey, ai,
                   buffer, calls, console, attempted, sanVars>>

\* const response = await axios.get(att.content, ...)
CallDownload ==
    /\ pc = "attachments"
    /\ ai <= Len(attachments)
    /\ console' = Append(console, Line("log", "Processing attachment", ti, ai))
    /\ calls' = Append(calls, Call("download", "call", ti, ai, att.content))
    /\ pc' = "await_download"
    /\ UNCHANGED <<TARGETS, jira, created, src, baseFields, ti, newIssueKey, ai,
                   buffer, attempted, sanVars>>

\* the download resolves: buffer holds the bytes
DownloadOk ==
    /\ pc = "await_download"
    /\ buffer' = bytesAt(att.content)
    /\ calls' = Append(calls, Call("download", "ok", ti, ai, buffer'))
    /\ pc' = "upload"
    /\ UNCHANGED <<TARGETS, jira, created, src, baseFields, ti, newIssueKey, ai,
                   console, attempted, sanVars>>

\* axios.get throws: no try block in cloneAttachments holds it, so it
\* leaves cloneAttachments and is caught by the catch around the whole
\* target in run(), which prints and goes to the next target
DownloadFails ==
    /\ pc = "await_download"
    /\ calls' = Append(calls, Call("download", "fail", ti, ai, JsNull))
    /\ console' = Append(console, Line("error", "Failed to create clone", ti, 0))
    /\ newIssueKey' = JsNull
    /\ ti' = ti + 1
    /\ pc' = "loop"
    /\ UNCHANGED <<TARGETS, jira, created, src, baseFields, ai, buffer, attempted, sanVars>>

\* uploadName and uploadBuffer are computed, the form is built and
\* axios.post(.../issue/${newIssueKey}/attachments, form) is sent
CallUpload ==
    /\ pc = "upload"
    /\ console' = IF isUnsupportedFile(att.filename)
                  THEN Append(console, Line("log", "Zipping unsupported file", ti, ai))
                  ELSE console
    /\ calls' = Append(calls, Call("upload", "call", ti, ai,
                                    [key     |-> newIssueKey,
                                     name    |-> uploadNameOf(att.filename),
                                     payload |-> uploadBufferOf(att.filename, buffer)]))
    /\ pc' = "await_upload"
    /\ UNCHANGED <<TARGETS, jira, created, src, baseFields, ti, newIssueKey, ai,
                   buffer, attempted, sanVars>>

\* the upload resolves: next attachment
UploadOk ==
    /\ pc = "await_upload"
    /\ calls' = Append(calls, Call("upload", "ok", ti, ai, JsNull))
    /\ console' = Append(console, Line("log", "Uploaded attachment", ti, ai))
    /\ ai' = ai + 1
    /\ pc' = "attachments"
    /\ UNCHANGED <<TARGETS, jira, created, src, baseFields, ti, newIssueKey,
                   buffer, attempted, sanVars>>

\* UploadFails without the try block around the upload: the error leaves
\* cloneAttachments and is caught by the catch around the whole target
UploadFailsLeavesTarget ==
    /\ pc = "await_upload"
    /\ calls' = Append(calls, Call("upload", "fail", ti, ai, JsNull))
    /\ console' = Append(console, Line("error", "Failed to create clone", ti, 0))
    /\ newIssueKey' = JsNull
    /\ ti' = ti + 1
    /\ pc' = "loop"
    /\ UNCHANGED <<TARGETS, jira, created, src, baseFields, ai, buffer, attempted, sanVars>>

\* axios.post throws: the catch inside the loop prints, next attachment
UploadFails ==
    /\ pc = "await_upload"
    /\ calls' = Append(calls, Call("upload", "fail", ti, ai, JsNull))
    /\ console' = Append(console, Line("error", "Failed to upload", ti, ai))
    /\ ai' = ai + 1
    /\ pc' = "attachments"
    /\ UNCHANGED <<TARGETS, jira, created, src, baseFields, ti, newIssueKey,
                   buffer, attempted, sanVars>>

\* CallLink with the link type read from the target, "Cloners" if it has none
CallLinkConfiguredType ==
    /\ pc = "link"
    /\ calls' = Append(calls, Call("link", "call", ti, 0,
                                    [type         |-> [name |-> IF Has(target, "linkType")
                                                                THEN target.linkType
                                                                ELSE "Cloners"],
                                     inwardIssue  |-> [key |-> SOURCE_ISSUE_KEY],
                                     outwardIssue |-> [key |-> newIssueKey]]))
    /\ pc' = "await_link"
    /\ UNCHANGED <<TARGETS, jira, created, src, baseFields, ti, newIssueKey, ai,
                   buffer, console, attempted, sanVars>>

\* await jiraPost("/rest/api/3/issueLink", ...)
CallLink ==
    /\ pc = "link"
    /\ calls' = Append(calls, Call("link", "call", ti, 0,
                                    [type         |-> [name |-> "Blocks"],
                                     inwardIssue  |-> [key |-> SOURCE_ISSUE_KEY],
                                     outwardIssue |-> [key |-> newIssueKey]]))
    /\ pc' = "await_link"
    /\ UNCHANGED <<TARGETS, jira, created, src, baseFields, ti, newIssueKey, ai,
                   buffer, console, attempted, sanVars>>

\* the link is created
LinkOk ==
    /\ pc = "await_link"
    /\ calls' = Append(calls, Call("link", "ok", ti, 0, JsNull))
    /\ console' = Append(console, Line("log", "Linked", ti, 0))
    /\ pc' = "sleep"
    /\ UNCHANGED <<TARGETS, jira, created, src, baseFields, ti, newIssueKey, ai,
                   buffer, attempted, sanVars>>

\* jiraPost throws: the inner catch prints
LinkFails ==
    /\ pc = "await_link"
    /\ calls' = Append(calls, Call("link", "fail", ti, 0, JsNull))
    /\ console' = Append(console, Line("error", "Failed to link", ti, 0))
    /\ pc' = "sleep"
    /\ UNCHANGED <<TARGETS, jira, created, src, baseFields, ti, newIssueKey, ai,
                   buffer, attempted, sanVars>>

\* CallSleep without the await: the timer is set and the loop goes on
CallSleepNotAwaited ==
    /\ pc = "sleep"
    /\ calls' = Append(calls, Call("sleep", "call", ti, 0, SleepMs))
    /\ ti' = ti + 1
    /\ pc' = "loop"
    /\ UNCHANGED <<TARGETS, jira, created, src, baseFields, newIssueKey, ai,
                   buffer, console, attempted, sanVars>>

\* await sleep(1000): the timer is set
CallSleep ==
    /\ pc = "sleep"
    /\ calls' = Append(calls, Call("sleep", "call", ti, 0, SleepMs))
    /\ pc' = "await_sleep"
    /\ UNCHANGED <<TARGETS, jira, created, src, baseFields, ti, newIssueKey, ai,
                   buffer, console, attempted, sanVars>>

\* the timer fires: the loop goes to the next target
SleepDone ==
    /\ pc = "await_sleep"
    /\ calls' = Append(calls, Call("sleep", "ok", ti, 0, SleepMs))
    /\ ti' = ti + 1
    /\ pc' = "loop"
    /\ UNCHANGED <<TARGETS, jira, created, src, baseFields, newIssueKey, ai,
                   buffer, console, attempted, sanVars>>

Next ==
    \/ CallJiraGet
    \/ JiraGetOk
    \/ JiraGetFails
    \/ LoopExit
    \/ BuildFieldsThrows
    \/ CallCreate
    \/ CreateOk
    \/ CreateFails
    \/ AttachmentsDone
    \/ CallDownload
    \/ DownloadOk
    \/ DownloadFails
    \/ CallUpload
    \/ UploadOk
    \/ UploadFails
    \/ CallLink
    \/ LinkOk
    \/ LinkFails
    \/ CallSleep
    \/ SleepDone

\* ------------------------------------------------------------------------
\* Configurations and source issues run() is started with
\* ------------------------------------------------------------------------

\* longest target list
MaxTargets ==
    2

\* longest attachment list of the source issue
MaxAttachments ==
    2

\* longest generated file name
MaxNameLen ==
    4

\* the sequences over S of length at most n
SeqsUpTo(S, n) ==
    UNION {[1..k -> S] : k \in 0..n}

\* entries of targets.json: one that sets every attribute the code reads,
\* one that sets only the project, one with the strip-all naming policy and
\* empty lists
TargetPool ==
    {[project |-> "ALPHA", affectsVersions |-> <<"1.0">>, labels |-> <<"cloned">>,
      components |-> <<"api">>, client |-> [str |-> <<"A", "c">>],
      linkType |-> "Relates"],
     [project |-> "BETA"],
     [project |-> "GAMMA", affectsVersions |-> <<>>, labels |-> <<>>,
      stripBrackets |-> TRUE, client |-> [arr |-> <<<<"X">>, <<"Y">>>>]]}

\* attachments of the source issue: an image, a file of an extension that is
\* zipped, and a file that is uploaded as it is
AttachmentPool ==
    {[filename |-> <<"p", ".", "p", "n", "g">>, content |-> "url/1"],
     [filename |-> <<"e", ".", "l", "o", "g">>, content |-> "url/2"],
     [filename |-> <<"r", ".", "p", "d", "f">>, content |-> "url/3"]}

\* src.fields without the attachments: a task with a description and an
\* assignee, and an issue of type 10011 with neither
SourceProfiles ==
    {[summary     |-> <<"[", "Q", "]", " ", "F", "i", "x">>,
      description |-> [type |-> "doc", version |-> 1,
                       content |-> <<[type |-> "paragraph", id |-> <<1>>,
                                      content |-> <<[type |-> "mention", id |-> <<1, 1>>],
                                                    [type |-> "text", id |-> <<1, 2>>]>>],
                                     [type |-> "mediaSingle", id |-> <<2>>,
                                      content |-> <<[type |-> "media", id |-> <<2, 1>>]>>]>>],
      issuetype   |-> [id |-> "10001"],
      assignee    |-> [accountId |-> "acc-1"]],
     [summary     |-> <<"F", "i", "x">>,
      description |-> JsNull,
      issuetype   |-> [id |-> "10011"]]}

\* the source issues: every profile with every list of at most n attachments,
\* and with no attachment property at all
SourcePool(n) ==
    SourceProfiles
    \cup {[attachment |-> a] @@ p :
            p \in SourceProfiles, a \in SeqsUpTo(AttachmentPool, n)}

\* sanitizeADF is not called on its own
SanitizeNotCalled ==
    /\ sanArg = JsNull
    /\ sanArgAfter = JsNull
    /\ sanOut = JsNull
    /\ sanCalls = 0

\* run() is about to start
RunStarts ==
    /\ created = 0
    /\ pc = "start"
    /\ src = JsNull
    /\ baseFields = JsNull
    /\ ti = 0
    /\ newIssueKey = JsNull
    /\ ai = 0
    /\ buffer = JsNull
    /\ attempted = <<>>
    /\ calls = <<>>
    /\ console = <<>>

Init ==
    /\ TARGETS \in SeqsUpTo(TargetPool, MaxTargets)
    /\ jira \in SourcePool(MaxAttachments)
    /\ RunStarts
    /\ SanitizeNotCalled

Spec ==
    Init /\ [][Next]_vars

\* characters of the generated file names: letters of the extensions .sh
\* and .db in both cases, another letter and the dot
NameAlphabet ==
    {"a", ".", "s", "h", "S"}

\* every file name of 1..n characters
FileNames(n) ==
    SeqsUpTo(NameAlphabet, n) \ {<<>>}

\* run() with one target and a source issue with one attachment whose file
\* name is any generated name
InitNames ==
    /\ TARGETS \in {<<t>> : t \in TargetPool}
    /\ jira \in {[attachment |-> <<[filename |-> n, content |-> "url/1"]>>] @@ p :
                   p \in SourceProfiles, n \in FileNames(MaxNameLen)}
    /\ RunStarts
    /\ SanitizeNotCalled

SpecNames ==
    InitNames /\ [][Next]_vars

\* longest generated summary
MaxTitleLen ==
    4

\* characters of the generated summaries: white space, the two brackets and
\* a letter
TitleAlphabet ==
    {" ", "[", "]", "a"}

\* every summary of 0..n characters
Titles(n) ==
    SeqsUpTo(TitleAlphabet, n)

\* entries of targets.json that differ in the naming attributes: a client
\* given as a string, as a list, as an empty list and not at all, the
\* strip-all policy, and an entry with the project only
TitleTargets ==
    {[project |-> "ALPHA", affectsVersions |-> <<"1.0">>, stripBrackets |-> FALSE,
      client |-> [str |-> <<"A", "c">>]],
     [project |-> "ALPHA", affectsVersions |-> <<"1.0">>,
      client |-> [arr |-> <<<<"X">>, <<"Y">>>>]],
     [project |-> "ALPHA", affectsVersions |-> <<>>, client |-> [arr |-> <<>>]],
     [project |-> "ALPHA", affectsVersions |-> <<>>],
     [project |-> "GAMMA", affectsVersions |-> <<>>, stripBrackets |-> TRUE,
      client |-> [str |-> <<"A", "c">>]],
     [project |-> "BETA"]}

\* run() with one target and a source issue whose summary is any generated
\* summary
InitTitles ==
    /\ TARGETS \in {<<t>> : t \in TitleTargets}
    /\ jira \in {[summary     |-> s,
                   description |-> JsNull,
                   issuetype   |-> [id |-> "10001"],
                   attachment  |-> <<[filename |-> <<"r", ".", "p", "d", "f">>,
                                      content  |-> "url/3"]>>] :
                   s \in Titles(MaxTitleLen)}
    /\ RunStarts
    /\ SanitizeNotCalled

SpecTitles ==
    InitTitles /\ [][Next]_vars

\* ------------------------------------------------------------------------
\* Properties of run() and cloneAttachments
\* ------------------------------------------------------------------------

\* the attachment list of the source issue as the server holds it
SourceAttachments ==
    IF jira # JsNull /\ Has(jira, "attachment") THEN jira.attachment ELSE <<>>

\* the source fetch succeeded
Fetched ==
    src # JsNull

\* run() has ended: resolved, or rejected and reported by run().catch
Ended ==
    pc \in {"done", "rejected"}

\* calls holds the calls made for a target
InTarget ==
    calls # <<>> /\ calls[1].op = "create"

\* the loop has left the target that calls is about
TargetLeft ==
    InTarget /\ pc \in {"loop", "done", "rejected"}

\* positions of calls at which a call of this kind for attachment a is
\* issued (ph = "call") or settles (ph = "ok" / "fail")
At(op, ph, a) ==
    {k \in 1..Len(calls) : calls[k].op = op /\ calls[k].ph = ph /\ calls[k].a = a}

Where(op, ph) ==
    {k \in 1..Len(calls) : calls[k].op = op /\ calls[k].ph = ph}

\* C1: with the source fetched, run() issues the creation call for each
\* target of the list exactly once and in list order before it ends,
\* whatever the list and whatever the calls return.
C1_AsClaimed_EveryTargetAttemptedInOrder ==
    (Fetched /\ Ended) => attempted = [i \in 1..Len(TARGETS) |-> i]

\* C2: once the creation call of a target has failed, nothing else is done
\* for that target (no download, upload, link or sleep) and run() stands at
\* the head of the loop for the next target, or has ended.
C2_FailedCreationAbandonsTarget ==
    (InTarget /\ Where("create", "fail") # {}) =>
        /\ Len(calls) = 2
        /\ \A k \in 1..Len(calls) : calls[k].op = "create"
        /\ \A k \in 1..Len(console) :
               console[k].t = calls[1].t => console[k].msg = "Failed to create clone"
        /\ pc \in {"loop", "done", "rejected"}
        /\ ti = calls[1].t + 1

\* C2 witness: creation failed for a target that is not the last one, with
\* attachments on the source issue, and the loop is at the next target
C2_Witness ==
    /\ InTarget
    /\ Where("create", "fail") # {}
    /\ pc = "loop"
    /\ ti <= Len(TARGETS)
    /\ SourceAttachments # <<>>

\* C3: for a target whose creation succeeded the link call is issued
\* exactly once, after the attachment calls, whatever their outcome.
C3_AsClaimed_LinkAlwaysAttempted ==
    (TargetLeft /\ Where("create", "ok") # {}) =>
        /\ Cardinality(Where("link", "call")) = 1
        /\ \A l \in Where("link", "call") :
               \A k \in 1..Len(calls) :
                   calls[k].op \in {"download", "upload"} => k < l

\* C4: when the download or the upload of attachment i fails, every
\* attachment after i is still downloaded, and uploaded once downloaded.
C4_AsClaimed_LaterAttachmentsStillCloned ==
    (TargetLeft /\ Where("create", "ok") # {}) =>
        \A i \in 1..Len(SourceAttachments) :
            (At("download", "fail", i) # {} \/ At("upload", "fail", i) # {}) =>
                \A j \in (i + 1)..Len(SourceAttachments) :
                    /\ At("download", "call", j) # {}
                    /\ (At("download", "ok", j) # {} => At("upload", "call", j) # {})

\* where a call stands in the fixed order of one target: creation, then per
\* attachment its download and its upload, then the link, then the sleep
Rank(e) ==
    CASE e.op = "create"   -> 0
      [] e.op = "download" -> 2 * e.a
      [] e.op = "upload"   -> 2 * e.a + 1
      [] e.op = "link"     -> 2 * Len(SourceAttachments) + 2
      [] e.op = "sleep"    -> 2 * Len(SourceAttachments) + 3
      [] OTHER             -> 0

\* a call is pending: issued and not settled
Pending ==
    calls # <<>> /\ calls[Len(calls)].ph = "call"

\* every call settles before the next one is issued, and the calls of a
\* target are issued in the fixed order
CallsInOrder ==
    /\ \A k \in 1..Len(calls) :
           IF calls[k].ph = "call"
           THEN k < Len(calls) =>
                    /\ calls[k + 1].ph \in {"ok", "fail"}
                    /\ calls[k + 1].op = calls[k].op
                    /\ calls[k + 1].a = calls[k].a
           ELSE /\ k > 1
                /\ calls[k - 1].ph = "call"
                /\ calls[k - 1].op = calls[k].op
                /\ calls[k - 1].a = calls[k].a
    /\ InTarget =>
           /\ \A k \in 1..Len(calls) : calls[k].t = attempted[Len(attempted)]
           /\ \A k \in 1..Len(calls), l \in 1..Len(calls) :
                  (k < l /\ calls[k].ph = "call" /\ calls[l].ph = "call")
                      => Rank(calls[k]) < Rank(calls[l])
    /\ \A k \in 1..Len(attempted), l \in 1..Len(attempted) :
           k < l => attempted[k] < attempted[l]

\* C5: the external calls are totally ordered: each call settles before the
\* next is issued; within a target creation comes before the attachment
\* downloads and uploads, these before the link, the link before the sleep;
\* and the first call of the next target is issued only when no call of the
\* target before it is pending.
C5_CallsTotallyOrdered ==
    /\ [](CallsInOrder)
    /\ [][attempted' # attempted => ~Pending]_vars

\* C5 witness: a target went through creation, two attachments, the link
\* and the sleep, and the creation call of the next target is issued
C5_Witness ==
    /\ Len(attempted) >= 2
    /\ Pending
    /\ created >= 1
    /\ Len(SourceAttachments) >= 2

ZippedExtensions ==
    {<<"m", "s", "g">>, <<"e", "m", "l">>, <<"e", "x", "e">>, <<"d", "l", "l">>,
     <<"b", "a", "t">>, <<"c", "m", "d">>, <<"s", "h">>, <<"i", "n", "i">>,
     <<"s", "y", "s">>, <<"d", "b">>, <<"l", "o", "g">>}

\* the file name has an extension: the characters after its last dot
HasExtension(filename) ==
    \E k \in 1..Len(filename) : filename[k] = "."

\* the extension of a file name that has one, letter case put aside
Extension(filename) ==
    LET lastDot == CHOOSE k \in 1..Len(filename) :
                       /\ filename[k] = "."
                       /\ \A l \in (k + 1)..Len(filename) : filename[l] # "."
    IN  toLowerCase(SubSeq(filename, lastDot + 1, Len(filename)))

\* C8: for every attachment that is uploaded: if its extension (compared
\* without regard to letter case) is one of msg, eml, exe, dll, bat, cmd, sh,
\* ini, sys, db, log, the upload name is the file name followed by ".zip"
\* and the payload is an archive whose single entry holds the downloaded
\* bytes under the file name; otherwise the upload name is the file name and
\* the payload is the downloaded bytes.
C8_ZipExactlyTheListedExtensions ==
    \A k \in Where("upload", "call") :
        LET filename == SourceAttachments[calls[k].a].filename
            zipped   == HasExtension(filename) /\ Extension(filename) \in ZippedExtensions
        IN  \E d \in At("download", "ok", calls[k].a) :
                IF zipped
                THEN /\ calls[k].arg.name = filename \o <<".", "z", "i", "p">>
                     /\ calls[k].arg.payload =
                            [zip |-> <<[entryName |-> filename, data |-> calls[d].arg]>>]
                ELSE /\ calls[k].arg.name = filename
                     /\ calls[k].arg.payload = [raw |-> calls[d].arg]

\* C8 witness: a file whose listed extension is written with a capital
\* letter was uploaded zipped
C8_Witness ==
    \E k \in Where("upload", "call") :
        LET filename == SourceAttachments[calls[k].a].filename
        IN  /\ Has(calls[k].arg.payload, "zip")
            /\ \E c \in 1..Len(filename) : filename[c] = "S"
            /\ At("upload", "ok", calls[k].a) # {}

\* ------------------------------------------------------------------------
\* More properties of sanitizeADF
\* ------------------------------------------------------------------------

\* C11: sanitizeADF is idempotent: called on its own result it returns a
\* value equal to that result, for a document, for no document and for a
\* root of another kind.
C11_SanitizeIdempotent ==
    sanCalls = 2 => sanOut = sanArg

\* C11 witness: sanitizeADF was called on its own result, and the first call
\* had removed the first node of the document and kept a later one
C11_Witness ==
    /\ sanCalls = 2
    /\ sanOut.content # <<>>
    /\ sanOut.content[1].id # <<1>>

\* the argument of the latest call is no doc root
NoDocRoot ==
    IF sanArg = JsNull THEN TRUE ELSE sanArg.type # "doc"

\* C12: sanitizeADF always returns a doc root with a content array, whose
\* entries are all nodes; the array is empty when the argument is missing,
\* is no doc root, or is a doc root without content.
C12_AlwaysWellFormedRoot ==
    sanCalls >= 1 =>
        /\ sanOut # JsNull
        /\ sanOut.type = "doc"
        /\ Has(sanOut, "content")
        /\ DOMAIN sanOut.content = 1..Len(sanOut.content)
        /\ \A i \in 1..Len(sanOut.content) : sanOut.content[i] # JsNull
        /\ NoDocRoot => sanOut.content = <<>>
        /\ (~NoDocRoot /\ ~Has(sanArg, "content")) => sanOut.content = <<>>

\* C12 witness: sanitizeADF was called with a root of another kind that has
\* children
C12_Witness ==
    /\ sanCalls = 1
    /\ sanArg # JsNull
    /\ sanArg.type # "doc"
    /\ Has(sanArg, "content")
    /\ sanArg.content # <<>>
    /\ sanOut.content = <<>>

\* C19 as claimed: after sanitizeADF returned, its argument is as it was
\* before the call, at every depth.
C19_AsClaimed_InputUnchanged ==
    sanCalls >= 1 => sanArgAfter = sanArg

\* ------------------------------------------------------------------------
\* Properties of transformSummaryForTarget
\* ------------------------------------------------------------------------

\* the summary begins, after white space, with a bracket group "[...]"
HasLeadingGroup(title) ==
    \E i \in 1..Len(title), j \in 1..Len(title) :
        /\ i < j
        /\ \A k \in 1..(i - 1) : title[k] = " "
        /\ title[i] = "["
        /\ title[j] = "]"

\* the summary without its leading bracket group and the white space around
\* the group; the summary itself if it has no leading group
WithoutLeadingGroup(title) ==
    IF ~HasLeadingGroup(title) THEN title
    ELSE LET open  == CHOOSE i \in 1..Len(title) :
                          title[i] = "[" /\ \A k \in 1..(i - 1) : title[k] = " "
             close == CHOOSE j \in (open + 1)..Len(title) :
                          title[j] = "]" /\ \A k \in (open + 1)..(j - 1) : title[k] # "]"
             rest  == CHOOSE r \in (close + 1)..(Len(title) + 1) :
                          /\ \A k \in (close + 1)..(r - 1) : title[k] = " "
                          /\ r <= Len(title) => title[r] # " "
         IN  SubSeq(title, rest, Len(title))

\* the text without the white space at its two ends
Trimmed(text) ==
    IF \A k \in 1..Len(text) : text[k] = " " THEN <<>>
    ELSE LET first == CHOOSE i \in 1..Len(text) :
                          text[i] # " " /\ \A k \in 1..(i - 1) : text[k] = " "
             last  == CHOOSE j \in 1..Len(text) :
                          text[j] # " " /\ \A k \in (j + 1)..Len(text) : text[k] = " "
         IN  SubSeq(text, first, last)

\* the client tag a target declares, <<>> if it declares none
TagOf(t) ==
    IF ~Has(t, "client") THEN <<>>
    ELSE IF Has(t.client, "str") THEN t.client.str
    ELSE IF Len(t.client.arr) >= 1 THEN t.client.arr[1]
    ELSE <<>>

\* the target's naming policy is strip-all
StripAll(t) ==
    Has(t, "stripBrackets") /\ t.stripBrackets

\* C13: for a target whose policy is not strip-all and a summary that is
\* present, the summary of the clone is the source summary without its
\* leading bracket group (later groups stay); with a client tag, given as a
\* string or as the first element of a list, it is "[tag] " followed by that
\* remainder, trimmed, whether or not there was a leading group; without a
\* tag it is the remainder with nothing put in front.
C13_LeadingGroupReplacedByTag ==
    \A k \in Where("create", "call") :
        LET t     == TARGETS[calls[k].t]
            title == jira.summary
        IN  (~StripAll(t) /\ title # <<>>) =>
                calls[k].arg.summary =
                    IF TagOf(t) # <<>>
                    THEN Trimmed(<<"[">> \o TagOf(t) \o <<"]", " ">>
                                 \o WithoutLeadingGroup(title))
                    ELSE WithoutLeadingGroup(title)

\* C13 witness: a clone was created for a target with a client tag from a
\* summary with a leading bracket group and a second group after it
C13_Witness ==
    /\ Where("create", "ok") # {}
    /\ \E k \in Where("create", "call") :
           /\ ~StripAll(TARGETS[calls[k].t])
           /\ TagOf(TARGETS[calls[k].t]) # <<>>
           /\ HasLeadingGroup(jira.summary)
           /\ \E i \in 1..Len(calls[k].arg.summary) :
                  i > Len(TagOf(TARGETS[calls[k].t])) + 2 /\ calls[k].arg.summary[i] = "["

\* ------------------------------------------------------------------------
\* More properties of run() and cloneAttachments
\* ------------------------------------------------------------------------

\* the affects-version names of a target as name objects
NamesOf(t) ==
    [i \in 1..Len(t.affectsVersions) |-> [name |-> t.affectsVersions[i]]]

C16_AsClaimed_NoErrorEscapesTarget ==
    Fetched => pc # "rejected"

\* C17 as claimed: what is printed about a target names the creation as the
\* step that failed only if the creation call of that target failed.
C17_AsClaimed_CreationBlamedOnlyWhenItFailed ==
    \A k \in 1..Len(console) :
        console[k].msg = "Failed to create clone" =>
            \E c \in Where("create", "fail") : calls[c].t = console[k].t

\* the entry of calls that follows entry k is the call of this kind for
\* attachment a
FollowedBy(k, op, a) ==
    /\ calls[k + 1].op = op
    /\ calls[k + 1].ph = "call"
    /\ calls[k + 1].a = a
    /\ calls[k + 1].t = calls[k].t

\* what follows a settled upload of attachment i: the download of the next
\* attachment, or the link call after the last one, and then the sleep
UploadSettledGoesOn(k) ==
    /\ k < Len(calls) =>
           IF calls[k].a < Len(SourceAttachments)
           THEN FollowedBy(k, "download", calls[k].a + 1)
           ELSE FollowedBy(k, "link", 0)
    /\ (TargetLeft /\ calls[k].a = Len(SourceAttachments)) =>
           /\ Where("link", "call") # {}
           /\ Where("sleep", "ok") # {}

\* C18: a failed upload is absorbed inside cloneAttachments: run() goes on
\* as after a successful one, to the download of the next attachment or,
\* after the last attachment, to the link and the sleep; nothing is printed
\* about the creation, and the step taken when the upload settles leaves
\* run() at the same place whether it failed or not.
C18_UploadFailureAbsorbed ==
    /\ [](/\ \A k \in Where("upload", "fail") : UploadSettledGoesOn(k)
          /\ \A k \in Where("upload", "ok") : UploadSettledGoesOn(k)
          /\ (Where("upload", "fail") # {} /\ Where("download", "fail") = {}) =>
                 \A l \in 1..Len(console) : console[l].msg # "Failed to create clone")
    /\ [][pc = "await_upload" =>
              /\ pc' = "attachments"
              /\ ai' = ai + 1
              /\ ti' = ti
              /\ newIssueKey' = newIssueKey]_vars

\* C18 witness: the upload of the first of two attachments failed, the
\* second was downloaded and uploaded, the link was made and the sleep ended
C18_Witness ==
    /\ TargetLeft
    /\ At("upload", "fail", 1) # {}
    /\ At("upload", "ok", 2) # {}
    /\ Where("link", "ok") # {}
    /\ Where("sleep", "ok") # {}

\* C20: every upload and every link call of a target carries the key that
\* the creation call of this target returned before, which is the key of the
\* issue the server created last; the other end of the link is the source
\* issue; no upload and no link call is issued before a creation returned.
C20_CallsCarryOwnIssueKey ==
    \A k \in 1..Len(calls) :
        (calls[k].ph = "call" /\ calls[k].op \in {"upload", "link"}) =>
            LET key == IF calls[k].op = "upload" THEN calls[k].arg.key
                       ELSE calls[k].arg.outwardIssue.key
            IN  /\ \E c \in Where("create", "ok") :
                       /\ c < k
                       /\ calls[c].t = calls[k].t
                       /\ calls[c].arg = key
                /\ key = issueKey(TARGETS[calls[k].t].project, created)
                /\ created >= 1
                /\ calls[k].t = attempted[Len(attempted)]
                /\ calls[k].op = "link" => calls[k].arg.inwardIssue.key = SOURCE_ISSUE_KEY

\* C20 witness: the second clone of a run got an attachment and its link
C20_Witness ==
    /\ created >= 2
    /\ Where("upload", "ok") # {}
    /\ Where("link", "ok") # {}

====
